---- MODULE Spec2Model ----
(***************************************************************************)
(* A model of book_sorter's classification-validation-placement pipeline   *)
(* (main.py process_all_files, with the adapters of llm_utils.py).         *)
(*                                                                         *)
(* Text is a sequence of one-character strings.  A line of an LLM reply is *)
(* the sequence of its fields, i.e. what line.split('|||') returns: a line *)
(* without the delimiter is a one-field line.                              *)
(***************************************************************************)
EXTENDS Integers, Sequences, FiniteSets, TLC

----------------------------------------------------------------------------
(* Bounds of the model *)

\* number of files in the working tree
NumFiles == 2

----------------------------------------------------------------------------
(* Text helpers: str.lower, str.upper, str.strip *)

LowerChar(c) ==
  CASE c = "A" -> "a" [] c = "B" -> "b" [] c = "C" -> "c" [] c = "D" -> "d"
    [] c = "E" -> "e" [] c = "F" -> "f" [] c = "G" -> "g" [] c = "H" -> "h"
    [] c = "I" -> "i" [] c = "J" -> "j" [] c = "K" -> "k" [] c = "L" -> "l"
    [] c = "M" -> "m" [] c = "N" -> "n" [] c = "O" -> "o" [] c = "P" -> "p"
    [] c = "Q" -> "q" [] c = "R" -> "r" [] c = "S" -> "s" [] c = "T" -> "t"
    [] c = "U" -> "u" [] c = "V" -> "v" [] c = "W" -> "w" [] c = "X" -> "x"
    [] c = "Y" -> "y" [] c = "Z" -> "z" [] OTHER -> c

UpperChar(c) ==
  CASE c = "a" -> "A" [] c = "b" -> "B" [] c = "c" -> "C" [] c = "d" -> "D"
    [] c = "e" -> "E" [] c = "f" -> "F" [] c = "g" -> "G" [] c = "h" -> "H"
    [] c = "i" -> "I" [] c = "j" -> "J" [] c = "k" -> "K" [] c = "l" -> "L"
    [] c = "m" -> "M" [] c = "n" -> "N" [] c = "o" -> "O" [] c = "p" -> "P"
    [] c = "q" -> "Q" [] c = "r" -> "R" [] c = "s" -> "S" [] c = "t" -> "T"
    [] c = "u" -> "U" [] c = "v" -> "V" [] c = "w" -> "W" [] c = "x" -> "X"
    [] c = "y" -> "Y" [] c = "z" -> "Z" [] OTHER -> c

Lower(s) == [i \in 1..Len(s) |-> LowerChar(s[i])]

Upper(s) == [i \in 1..Len(s) |-> UpperChar(s[i])]

IsSpace(c) == c \in {" ", "\t"}

RECURSIVE LStrip(_)
LStrip(s) == IF s # <<>> /\ IsSpace(Head(s)) THEN LStrip(Tail(s)) ELSE s

RECURSIVE RStrip(_)
RStrip(s) ==
  IF s # <<>> /\ IsSpace(s[Len(s)]) THEN RStrip(SubSeq(s, 1, Len(s) - 1)) ELSE s

Strip(s) == RStrip(LStrip(s))

----------------------------------------------------------------------------
(* Literals of the source *)

sAuthor    == <<"a","u","t","h","o","r">>
sTitle     == <<"t","i","t","l","e">>
sBook      == <<"b","o","o","k">>
sNA        == <<"n","/","a">>
sAnonymous == <<"a","n","o","n","y","m","o","u","s">>
sLanguage  == <<"l","a","n","g","u","a","g","e">>
sUnknown   == <<"u","n","k","n","o","w","n">>
sUnknownAuthor == sUnknown \o <<"_">> \o sAuthor
sUnknownTitle  == sUnknown \o <<"_">> \o sTitle

\* forbidden = {"author", "title", "book", "n/a", "anonymous"}
forbidden == {sAuthor, sTitle, sBook, sNA, sAnonymous}

\* "invalid_classification", the error bucket of the placement pass
InvalidClassification ==
  <<"i","n","v","a","l","i","d","_","c","l","a","s","s","i","f","i","c","a","t","i","o","n">>

\* "invalid_author_folders", the error bucket of the audit pass
InvalidAuthorFolders ==
  <<"i","n","v","a","l","i","d","_">> \o sAuthor \o <<"_","f","o","l","d","e","r","s">>

----------------------------------------------------------------------------
(* llm_utils.standardize_filename *)

\* the character class [<>:"/\\|?*] of clean's re.sub
InvalidFilenameChars == {"<", ">", ":", "\"", "/", "\\", "|", "?", "*"}

\* re.sub(r'[<>:"/\\|?*]', '_', s)
SubInvalid(s) ==
  [i \in 1..Len(s) |-> IF s[i] \in InvalidFilenameChars THEN "_" ELSE s[i]]

\* mutant: clean without its replace(' ', '_')
ReplaceSpaces_Identity(s) == s

\* .replace(' ', '_')
ReplaceSpaces(s) == [i \in 1..Len(s) |-> IF s[i] = " " THEN "_" ELSE s[i]]

clean(s) == ReplaceSpaces(Strip(SubInvalid(s)))

standardize_filename(author, title, language, ext) ==
  clean(author) \o <<"-">> \o clean(title) \o <<"-">> \o clean(language) \o clean(ext)

----------------------------------------------------------------------------
(* llm_utils.categorize_with_llm: parsing of the Classifier's reply *)

\* line.strip() is non-empty
NonBlank(line) == ~(Len(line) = 1 /\ Strip(line[1]) = <<>>)

\* lines[0].strip().upper() == 'AUTHOR|||TITLE|||LANGUAGE'
IsHeaderLine(line) ==
  /\ Len(line) = 3
  /\ Upper(LStrip(line[1])) = Upper(sAuthor)
  /\ Upper(line[2]) = Upper(sTitle)
  /\ Upper(RStrip(line[3])) = Upper(sLanguage)

\* lines = [non-blank lines]; drop lines[0] when it is the echoed header
HeaderStripped(reply) ==
  LET lines == SelectSeq(reply, NonBlank)
  IN IF lines # <<>> /\ IsHeaderLine(lines[1]) THEN Tail(lines) ELSE lines

\* mutant: only a line of three fields counts as delimited
HasDelimiter_ThreeFields(line) == Len(line) >= 3

\* '|||' in line
HasDelimiter(line) == Len(line) >= 2

\* the (author, title, language) read from the fields of a delimited line
ParseParts(parts) ==
  IF Len(parts) >= 3
  THEN [author |-> Strip(parts[1]), title |-> Strip(parts[2]), language |-> Strip(parts[3])]
  ELSE [author |-> Strip(parts[1]), title |-> Strip(parts[2]), language |-> sUnknown]

\* mutant: the placeholder test without lower()
ForbiddenAuthor_CaseSensitive(c) == Strip(c.author) \in forbidden

\* author.strip().lower() in forbidden
ForbiddenAuthor(c) == Lower(Strip(c.author)) \in forbidden

\* mutant: one sentinel is enough to fail
BothUnknown_Either(c) ==
  Lower(c.author) = sUnknownAuthor \/ Lower(c.title) = sUnknownTitle

\* author.lower() == 'unknown_author' and title.lower() == 'unknown_title'
BothUnknown(c) ==
  Lower(c.author) = sUnknownAuthor /\ Lower(c.title) = sUnknownTitle

\* The adapter's result: a classification, or the ValueError it raises.
\* Only the first delimited line is looked at: it returns or raises.
categorize_with_llm(reply) ==
  LET delimited == SelectSeq(HeaderStripped(reply), HasDelimiter)
  IN IF delimited = <<>>
     THEN [ok |-> FALSE, error |-> "no_valid_line"]
     ELSE LET c == ParseParts(delimited[1])
          IN IF ForbiddenAuthor(c) THEN [ok |-> FALSE, error |-> "forbidden_author"]
             ELSE IF BothUnknown(c) THEN [ok |-> FALSE, error |-> "both_unknown"]
             ELSE [ok |-> TRUE, author |-> c.author, title |-> c.title,
                   language |-> c.language]

----------------------------------------------------------------------------
(* llm_utils.validate_author_name_with_llm: parsing of the Validator's reply *)

\* max_retries: int = 10
max_retries == 10

sVALID   == <<"V","A","L","I","D">>
sINVALID == <<"I","N","V","A","L","I","D">>

\* The status of the first line of one backend output that holds the
\* delimiter and whose status, stripped and upper-cased, is VALID or INVALID;
\* <<>> when the output has no such line.
RECURSIVE OutputStatus(_)
OutputStatus(output) ==
  IF output = <<>> THEN <<>>
  ELSE LET line == Head(output)
           status == Upper(Strip(line[1]))
       IN IF HasDelimiter(line) /\ status \in {sVALID, sINVALID}
          THEN status
          ELSE OutputStatus(Tail(output))

\* for attempt in range(max_retries): the first attempt, from `attempt` on,
\* whose output parses; outputs[i] is what the backend answers at attempt i
RECURSIVE ValidateLoop(_, _)
ValidateLoop(outputs, attempt) ==
  IF attempt > max_retries
  THEN [valid |-> FALSE, reason |-> "exhausted", attempts |-> max_retries]
  ELSE LET status == OutputStatus(outputs[attempt])
       IN IF status # <<>>
          THEN [valid |-> status = sVALID, reason |-> "llm", attempts |-> attempt]
          ELSE ValidateLoop(outputs, attempt + 1)

\* mutant: the adapter gives up after its first attempt
validate_author_name_with_llm_OneAttempt(author_name, outputs) ==
  IF Lower(Strip(author_name)) \in forbidden
  THEN [valid |-> FALSE, reason |-> "forbidden_placeholder", attempts |-> 0]
  ELSE IF OutputStatus(outputs[1]) # <<>>
  THEN [valid |-> OutputStatus(outputs[1]) = sVALID, reason |-> "llm", attempts |-> 1]
  ELSE [valid |-> FALSE, reason |-> "exhausted", attempts |-> max_retries]

validate_author_name_with_llm(author_name, outputs) ==
  IF Lower(Strip(author_name)) \in forbidden
  THEN [valid |-> FALSE, reason |-> "forbidden_placeholder", attempts |-> 0]
  ELSE ValidateLoop(outputs, 1)

----------------------------------------------------------------------------
(* The run's inputs: the working tree and the replies of the two LLMs *)

eTxt  == <<".","t","x","t">>
eTXT  == <<".","T","X","T">>
eXyz  == <<".","x","y","z">>
eEpub == <<".","e","p","u","b">>
ePdf  == <<".","p","d","f">>
eDocx == <<".","d","o","c","x">>
eFb2  == <<".","f","b","2">>
eOpf  == <<".","o","p","f">>

\* the extensions of SUPPORTED_EXTENSIONS that have an extraction branch
\* (.mobi, .azw3, .prc, .pdb, .doc and .db raise "not implemented")
ImplementedExtensions == {eTxt, eFb2, eOpf, eDocx, ePdf, eEpub}

\* A file of the working tree: its basename is base \o ext; `readable` is
\* FALSE when opening or parsing the file raises.  File i lives in its own
\* directory, so two files may share a basename.
FileKinds ==
  { [base |-> <<"a">>, ext |-> eTxt, readable |-> TRUE],
    [base |-> <<"a">>, ext |-> eTXT, readable |-> TRUE],
    [base |-> <<"a">>, ext |-> eTxt, readable |-> FALSE],
    [base |-> <<"a">>, ext |-> eXyz, readable |-> TRUE] }

Files == 1..NumFiles

\* os.path.basename(processed_file)
basename(file) == file.base \o file.ext

\* extract.extract_first_1000_words raises (lines 9-11, 17-51)
ExtractRaises(file) ==
  Lower(file.ext) \notin ImplementedExtensions \/ ~file.readable

aAB   == <<"A"," ","B">>
aA_B  == <<"A","_","B">>
tT    == <<"T">>
tBook == <<"B","o","o","k">>
lEn   == <<"E","n">>

\* replies of the Classifier backend (each a sequence of lines)
ClassifierReplies ==
  { << <<aAB, tT, lEn>> >>,
    << <<aA_B, tT, lEn>> >>,
    << <<aAB, tBook, lEn>> >>,
    << <<Upper(sAuthor), Upper(sTitle), Upper(sLanguage)>>, <<aAB, tT, lEn>> >>,
    << <<<<"A","u","t","h","o","r">>, tT, lEn>> >>,
    << <<sUnknownAuthor, sUnknownTitle, lEn>> >>,
    << <<<<"n","o">>>> >> }

sOk  == <<"o","k">>
sBad == <<"b","a","d">>

OutputValid   == << <<sVALID, sOk>> >>
OutputInvalid == << <<sINVALID, sBad>> >>
OutputGarbage == << <<<<"h","m","m">>>> >>

\* What the Validator backend answers over the max_retries attempts of one
\* adapter call: k unparseable outputs, then `output` for the rest.
OutputsOf(k, output) ==
  [i \in 1..max_retries |-> IF i <= k THEN OutputGarbage ELSE output]

\* The Validator stubs of the test scenarios, and a free Validator.
ValidatorStubs == {"free", "always_valid", "always_invalid"}

ValidatorOutputs(stub) ==
  CASE stub = "always_valid"   -> {OutputsOf(0, OutputValid)}
    [] stub = "always_invalid" -> {OutputsOf(0, OutputInvalid)}
    [] OTHER -> {OutputsOf(k, o) : k \in {0, 1, max_retries},
                                   o \in {OutputValid, OutputInvalid}}

----------------------------------------------------------------------------
(* State *)

VARIABLES
  corpus,               \* the files of the working tree, in visiting order
  validatorStub,        \* how the Validator backend behaves in this run
  pc,                   \* where process_all_files stands
  probeIdx,             \* the file the probing walk visits next
  checked_extensions,
  succeeded_extensions,
  failed_extensions,
  extractable_files,    \* sequence of files (indices into corpus)
  idx,                  \* position in extractable_files
  existing_authors,
  attempt,              \* outer round, 0-based
  v_attempt,            \* inner validation attempt, 0-based
  cls,                  \* (author, title, language) of the current round
  valid,
  src,                  \* files that exist in the working tree
  dirs,                 \* names of the directories under finally_processed_dir
  tree,                 \* files in them: [dir, name, content]
  processing_errors,    \* files recorded by the except branch
  auditTodo,            \* directories the audit loop has still to visit
  placed,               \* history: [file, dir, name, verdict] of each copy to an author dir
  rejected,             \* history: files copied to invalid_classification
  clsCalls,             \* history: Classifier calls for the current file
  valCalls,             \* history: Validator Adapter calls for the current file
  lastVerdict,          \* history: arguments and result of the last Validator call
  audited,              \* history: names the audit passed to the Validator
  relocated,            \* history: [dir, names] moved away by the audit
  probeCalls,           \* history: the extensions the walk extracted a file for
  fnPc,                 \* a function called on its own: "off", "input", "done"
  fnIn,                 \* its arguments
  fnOut                 \* its result

vars ==
  << corpus, validatorStub, pc, probeIdx, checked_extensions,
     succeeded_extensions, failed_extensions, extractable_files, idx,
     existing_authors, attempt, v_attempt, cls, valid, src, dirs, tree,
     processing_errors, auditTodo, placed, rejected, clsCalls, valCalls,
     lastVerdict, audited, relocated, probeCalls, fnPc, fnIn, fnOut >>

NoCls == [author |-> <<>>, title |-> <<>>, language |-> <<>>]
NoVerdict == [author |-> <<>>, title |-> <<>>, language |-> <<>>, valid |-> FALSE]

\* lines 36-53: the output root exists and is empty, the working tree holds
\* the corpus, nothing is probed yet
Init ==
  /\ corpus \in [Files -> FileKinds]
  /\ validatorStub \in ValidatorStubs
  /\ pc = "probe"
  /\ probeIdx = 1
  /\ checked_extensions = {}
  /\ succeeded_extensions = {}
  /\ failed_extensions = {}
  /\ extractable_files = <<>>
  /\ idx = 1
  /\ existing_authors = {}
  /\ attempt = 0
  /\ v_attempt = 0
  /\ cls = NoCls
  /\ valid = FALSE
  /\ src = Files
  /\ dirs = {}
  /\ tree = {}
  /\ processing_errors = {}
  /\ auditTodo = {}
  /\ placed = {}
  /\ rejected = {}
  /\ clsCalls = 0
  /\ valCalls = 0
  /\ lastVerdict = NoVerdict
  /\ audited = {}
  /\ relocated = {}
  /\ probeCalls = <<>>
  /\ fnPc = "off"
  /\ fnIn = <<>>
  /\ fnOut = <<>>

----------------------------------------------------------------------------
(* Constants and conditions of process_all_files *)

\* max_attempts = 5
max_attempts == 5

\* for v_attempt in range(5)
inner_attempts == 5

\* mutant: an inner loop without a cap and without a break
InnerLoopDone_Never(v, va) == FALSE

\* mutant: the inner loop one attempt short
InnerLoopDone_Early(v, va) == v \/ va >= inner_attempts - 2

\* mutant: the inner loop without its `if valid: break`
InnerLoopDone_NoBreak(v, va) == va = inner_attempts - 1

\* the inner loop ends: `if valid: break`, or range(5) is used up
InnerLoopDone(v, va) == v \/ va = inner_attempts - 1

\* mutant: the copy to the author directory without its `if valid`
ShouldPlace_Always(v) == TRUE

\* if valid: (copy to the author directory) else: (reject path)
ShouldPlace(v) == v

\* mutant: every rejected round copies the file to the error bucket
IsLastAttempt_Every(a) == TRUE

\* mutant: the last round's test off by one
IsLastAttempt_OffByOne(a) == a = max_attempts

\* if attempt == max_attempts - 1
IsLastAttempt(a) == a = max_attempts - 1

\* the outer `for attempt in range(max_attempts)` has another round
HasNextRound(a) == a + 1 < max_attempts

\* mutant: the except branch deletes the source file
SrcAfterError_Deletes(s, f) == s \ {f}

\* except Exception as e: processing_errors.append(...): the source file is
\* not touched
SrcAfterError(s, f) == s

\* [d for d in finally_processed_dir.iterdir()
\*    if d.is_dir() and d.name != "invalid_author_folders"]
AuditedFolders(ds) == {d \in ds : d # InvalidAuthorFolders}

\* get_existing_authors: [d.name for d in iterdir() if d.is_dir()]
get_existing_authors(ds) == ds

\* shutil.copy2 / shutil.move onto dir/name: an existing entry is replaced
Put(t, dir, name, content) ==
  {e \in t : ~(e.dir = dir /\ e.name = name)}
    \cup {[dir |-> dir, name |-> name, content |-> content]}

----------------------------------------------------------------------------
(* The probing walk and the collection of the extractable files *)

envVars   == <<corpus, validatorStub, fnPc, fnIn, fnOut>>
probeVars == <<probeIdx, checked_extensions, succeeded_extensions, failed_extensions,
               probeCalls>>
roundVars == <<attempt, v_attempt, cls, valid>>
histVars  == <<placed, rejected, clsCalls, valCalls, lastVerdict>>
auditVars == <<auditTodo, audited, relocated>>

\* mutant: the walk without its memo of the checked extensions
AlreadyChecked_Never(ext, checked) == FALSE

\* if ext in checked_extensions: return
AlreadyChecked(ext, checked) == ext \in checked

\* check_extractable_once_per_ext on the next file of the walk
ProbeFile ==
  /\ pc = "probe"
  /\ probeIdx <= NumFiles
  /\ LET file == corpus[probeIdx]
         ext == Lower(file.ext)
     IN IF AlreadyChecked(ext, checked_extensions)
        THEN UNCHANGED <<checked_extensions, succeeded_extensions, failed_extensions,
                         probeCalls>>
        ELSE /\ checked_extensions' = checked_extensions \cup {ext}
             /\ probeCalls' = Append(probeCalls, ext)
             /\ succeeded_extensions' =
                  IF ExtractRaises(file) THEN succeeded_extensions
                  ELSE succeeded_extensions \cup {ext}
             /\ failed_extensions' =
                  IF ExtractRaises(file) THEN failed_extensions \cup {ext}
                  ELSE failed_extensions
  /\ probeIdx' = probeIdx + 1
  /\ UNCHANGED <<envVars, pc, extractable_files, idx, existing_authors, roundVars,
                 src, dirs, tree, processing_errors, histVars, auditVars>>

\* mutant: every file of the walk is collected
collect_extractable_files_All(succeeded) == [i \in 1..NumFiles |-> i]

\* collect_extractable_files over the walk
collect_extractable_files(succeeded) ==
  LET Extractable(i) == Lower(corpus[i].ext) \in succeeded
  IN SelectSeq([i \in 1..NumFiles |-> i], Extractable)

\* lines 97-107: collect the files, create invalid_classification
Collect ==
  /\ pc = "probe"
  /\ probeIdx > NumFiles
  /\ extractable_files' = collect_extractable_files(succeeded_extensions)
  /\ dirs' = dirs \cup {InvalidClassification}
  /\ pc' = IF extractable_files' = <<>> THEN "audit_start" ELSE "extract"
  /\ UNCHANGED <<envVars, probeVars, idx, existing_authors, roundVars, src, tree,
                 processing_errors, histVars, auditVars>>

----------------------------------------------------------------------------
(* The placement pass: one file *)

cur == extractable_files[idx]

\* the for loop over extractable_files moves to the next file
NextFile ==
  /\ idx' = idx + 1
  /\ pc' = IF idx + 1 > Len(extractable_files) THEN "audit_start" ELSE "extract"
  /\ attempt' = 0
  /\ v_attempt' = 0
  /\ cls' = NoCls
  /\ valid' = FALSE

\* mutant: the try inside the round, so that an exception starts a new round
Abort_Retry ==
  /\ processing_errors' = processing_errors \cup {cur}
  /\ src' = SrcAfterError(src, cur)
  /\ idx' = idx
  /\ pc' = "classify"
  /\ attempt' = attempt
  /\ v_attempt' = 0
  /\ cls' = NoCls
  /\ valid' = FALSE

\* except Exception as e: processing_errors.append((processed_file, str(e)))
Abort ==
  /\ processing_errors' = processing_errors \cup {cur}
  /\ src' = SrcAfterError(src, cur)
  /\ NextFile

\* lines 112-114: extract the sample, list the known authors
Extract ==
  /\ pc = "extract"
  /\ clsCalls' = 0
  /\ valCalls' = 0
  /\ lastVerdict' = NoVerdict
  /\ IF ExtractRaises(corpus[cur])
     THEN /\ Abort
          /\ UNCHANGED existing_authors
     ELSE /\ existing_authors' = get_existing_authors(dirs)
          /\ pc' = "classify"
          /\ UNCHANGED <<idx, roundVars, src, processing_errors>>
  /\ UNCHANGED <<envVars, probeVars, extractable_files, dirs, tree, placed,
                 rejected, auditVars>>

\* line 116: one outer round's call of the Classifier Adapter
Classify ==
  /\ pc = "classify"
  /\ clsCalls' = clsCalls + 1
  /\ \E reply \in ClassifierReplies :
       LET r == categorize_with_llm(reply)
       IN IF r.ok
          THEN /\ cls' = [author |-> r.author, title |-> r.title,
                          language |-> r.language]
               /\ valid' = FALSE
               /\ v_attempt' = 0
               /\ pc' = "validate"
               /\ UNCHANGED <<idx, attempt, src, processing_errors>>
          ELSE Abort
  /\ UNCHANGED <<envVars, probeVars, extractable_files, existing_authors, dirs,
                 tree, placed, rejected, valCalls, lastVerdict, auditVars>>

\* where the round goes once its inner loop has ended with verdict v
AfterInnerLoop(v, a) ==
  IF ShouldPlace(v) THEN "place"
  ELSE IF IsLastAttempt(a) THEN "reject_copy"
  ELSE IF HasNextRound(a) THEN "classify"
  ELSE "remove"

\* lines 120-124, 132-138: one call of the Validator Adapter, and the loop
\* control that follows it
Validate ==
  /\ pc = "validate"
  /\ valCalls' = valCalls + 1
  /\ \E outputs \in ValidatorOutputs(validatorStub) :
       LET v == validate_author_name_with_llm(cls.author, outputs)
       IN /\ valid' = v.valid
          /\ lastVerdict' = [author |-> cls.author, title |-> cls.title,
                             language |-> cls.language, valid |-> v.valid]
          /\ IF InnerLoopDone(v.valid, v_attempt)
             THEN /\ pc' = AfterInnerLoop(v.valid, attempt)
                  /\ attempt' = IF pc' = "classify" THEN attempt + 1 ELSE attempt
                  /\ v_attempt' = IF pc' = "classify" THEN 0 ELSE v_attempt
             ELSE /\ pc' = "validate"
                  /\ v_attempt' = v_attempt + 1
                  /\ UNCHANGED attempt
  /\ UNCHANGED <<envVars, probeVars, extractable_files, idx, existing_authors,
                 cls, src, dirs, tree, processing_errors, placed, rejected,
                 clsCalls, auditVars>>

\* what a file operation of the run may do
IoOutcomes == {"ok", "raises"}

\* lines 125-131: create the author directory, copy the file into it
Place ==
  /\ pc = "place"
  /\ LET file == corpus[cur]
         dir == cls.author
         name == standardize_filename(cls.author, cls.title, cls.language, file.ext)
     IN \E mkdir \in IoOutcomes, copy \in IoOutcomes :
          /\ dirs' = IF mkdir = "ok" THEN dirs \cup {dir} ELSE dirs
          /\ IF mkdir = "ok" /\ copy = "ok"
             THEN /\ tree' = Put(tree, dir, name, cur)
                  /\ placed' = placed \cup
                       {[file |-> cur, dir |-> dir, name |-> name,
                         verdict |-> lastVerdict]}
                  /\ pc' = "remove"
                  /\ UNCHANGED <<idx, roundVars, src, processing_errors>>
             ELSE /\ Abort
                  /\ UNCHANGED <<tree, placed>>
  /\ UNCHANGED <<envVars, probeVars, extractable_files, existing_authors,
                 rejected, clsCalls, valCalls, lastVerdict, auditVars>>

\* line 135: copy the file, under its basename, into invalid_classification
RejectCopy ==
  /\ pc = "reject_copy"
  /\ \E copy \in IoOutcomes :
       IF copy = "ok"
       THEN /\ tree' = Put(tree, InvalidClassification, basename(corpus[cur]), cur)
            /\ rejected' = rejected \cup {cur}
            /\ pc' = IF HasNextRound(attempt) THEN "classify" ELSE "remove"
            /\ attempt' = IF HasNextRound(attempt) THEN attempt + 1 ELSE attempt
            /\ UNCHANGED <<idx, v_attempt, cls, valid, src, processing_errors>>
       ELSE /\ Abort
            /\ UNCHANGED <<tree, rejected>>
  /\ UNCHANGED <<envVars, probeVars, extractable_files, existing_authors, dirs,
                 placed, clsCalls, valCalls, lastVerdict, auditVars>>

\* line 140: os.remove(processed_file)
Remove ==
  /\ pc = "remove"
  /\ \E remove \in IoOutcomes :
       IF remove = "ok"
       THEN /\ src' = src \ {cur}
            /\ NextFile
            /\ UNCHANGED processing_errors
       ELSE Abort
  /\ UNCHANGED <<envVars, probeVars, extractable_files, existing_authors, dirs,
                 tree, histVars, auditVars>>

----------------------------------------------------------------------------
(* The audit pass over the author folders *)

\* lines 143-158: create invalid_author_folders, list the folders to audit
AuditStart ==
  /\ pc = "audit_start"
  /\ dirs' = dirs \cup {InvalidAuthorFolders}
  /\ auditTodo' = AuditedFolders(dirs')
  /\ pc' = "audit"
  /\ clsCalls' = 0
  /\ valCalls' = 0
  /\ lastVerdict' = NoVerdict
  /\ UNCHANGED <<envVars, probeVars, extractable_files, idx, existing_authors,
                 roundVars, src, tree, processing_errors, placed, rejected,
                 audited, relocated>>

\* the entries of a directory
Entries(t, d) == {e \in t : e.dir = d}

\* mutant: the files of a rejected folder are deleted instead of moved
MoveToErrorDir_Drops(t, moved) == t \ moved

\* shutil.move(str(file), error_dir / file.name) for every entry of `moved`
MoveToErrorDir(t, moved) ==
  LET names == {e.name : e \in moved}
  IN {e \in t : /\ e \notin moved
                /\ ~(e.dir = InvalidAuthorFolders /\ e.name \in names)}
       \cup {[dir |-> InvalidAuthorFolders, name |-> e.name, content |-> e.content]
               : e \in moved}

\* lines 159-166: one iteration of the audit loop.  A move or the rmdir that
\* raises ends process_all_files with that exception.
AuditFolder ==
  /\ pc = "audit"
  /\ \E d \in auditTodo, outputs \in ValidatorOutputs(validatorStub) :
       LET v == validate_author_name_with_llm(d, outputs)
           rest == auditTodo \ {d}
           inside == Entries(tree, d)
       IN /\ audited' = audited \cup {d}
          /\ IF v.valid
             THEN /\ auditTodo' = rest
                  /\ pc' = IF rest = {} THEN "finished" ELSE "audit"
                  /\ UNCHANGED <<dirs, tree, relocated>>
             ELSE \E moved \in SUBSET inside, rmdir \in IoOutcomes :
                    /\ tree' = MoveToErrorDir(tree, moved)
                    /\ IF moved = inside /\ rmdir = "ok"
                       THEN /\ dirs' = dirs \ {d}
                            /\ relocated' = relocated \cup
                                 {[dir |-> d,
                                   files |-> {[name |-> e.name, content |-> e.content]
                                                : e \in inside}]}
                            /\ auditTodo' = rest
                            /\ pc' = IF rest = {} THEN "finished" ELSE "audit"
                       ELSE /\ pc' = "crashed"
                            /\ UNCHANGED <<dirs, relocated, auditTodo>>
  /\ UNCHANGED <<envVars, probeVars, extractable_files, idx, existing_authors,
                 roundVars, src, processing_errors, histVars>>

----------------------------------------------------------------------------
(* The run *)

Next ==
  \/ ProbeFile
  \/ Collect
  \/ Extract
  \/ Classify
  \/ Validate
  \/ Place
  \/ RejectCopy
  \/ Remove
  \/ AuditStart
  \/ AuditFolder

Spec == Init /\ [][Next]_vars

\* process_all_files is one thread that runs each of its statements to the
\* end: it does not stop while a step is left
FairSpec == Spec /\ WF_vars(Next)

TypeOK ==
  /\ pc \in {"probe", "extract", "classify", "validate", "place", "reject_copy",
             "remove", "audit_start", "audit", "finished", "crashed"}
  /\ src \subseteq Files
  /\ processing_errors \subseteq Files
  /\ attempt \in 0..max_attempts
  /\ v_attempt \in 0..(inner_attempts - 1)

----------------------------------------------------------------------------
(* Vocabulary of the properties *)

\* the placement pass has finished with file f
Processed(f) ==
  \E p \in 1..Len(extractable_files) : extractable_files[p] = f /\ p < idx

\* the placement pass has just finished with a file: clsCalls, valCalls and
\* lastVerdict are still those of that file
JustDone == idx > 1 /\ pc \in {"extract", "audit_start"}

lastFile == extractable_files[idx - 1]

WasPlaced(f) == \E p \in placed : p.file = f

\* The PlacementResult of a processed file: ProcessingError when the except
\* branch recorded it, else Placed or RejectedAfterRetries by the copy made.
Result(f) ==
  IF f \in processing_errors THEN "ProcessingError"
  ELSE IF WasPlaced(f) THEN "Placed"
  ELSE IF f \in rejected THEN "RejectedAfterRetries"
  ELSE "none"

InBucket(f) ==
  [dir |-> InvalidClassification, name |-> basename(corpus[f]), content |-> f] \in tree

----------------------------------------------------------------------------
(* Properties *)

\* C1: with a Validator that always answers INVALID|||bad, a file whose
\* processing raises no exception (the Classifier returns a classification in
\* every round, extraction, copy and deletion succeed) has, when the placement
\* pass is done with it, gone through exactly 5 Classifier calls and 25
\* rejected verdicts, is RejectedAfterRetries, has its copy in
\* invalid_classification, and its source file is gone.
C1_AlwaysInvalidRejects ==
  (validatorStub = "always_invalid" /\ JustDone /\ lastFile \notin processing_errors)
    => /\ Result(lastFile) = "RejectedAfterRetries"
       /\ ~WasPlaced(lastFile)
       /\ clsCalls = max_attempts
       /\ valCalls = max_attempts * inner_attempts
       /\ InBucket(lastFile)
       /\ lastFile \notin src

C1_Witness ==
  /\ validatorStub = "always_invalid"
  /\ JustDone
  /\ lastFile \in rejected
  /\ lastFile \notin processing_errors
  /\ clsCalls = 5

\* C2: with a Validator that always answers VALID|||ok, no file ever gets a
\* second Classifier call, and a file whose processing raises no exception is
\* Placed after exactly one Classifier call and one Validator call, its source
\* file deleted.
C2_AlwaysValidPlacesInOneRound ==
  validatorStub = "always_valid"
    => /\ clsCalls <= 1
       /\ attempt = 0
       /\ (JustDone /\ lastFile \notin processing_errors)
            => /\ Result(lastFile) = "Placed"
               /\ lastFile \notin rejected
               /\ clsCalls = 1
               /\ valCalls = 1
               /\ lastFile \notin src

C2_Witness ==
  /\ validatorStub = "always_valid"
  /\ JustDone
  /\ WasPlaced(lastFile)
  /\ lastFile \notin processing_errors
  /\ clsCalls = 1

\* C3: a Classifier call that raises (in any round) ends the file at once: the
\* file is recorded in processing_errors, the loop is at the next file (or at
\* the audit), nothing is copied and the source is kept; and the loop never
\* comes back to a file, so no later Classifier or Validator call is for it.
C3_ClassifierErrorAborts ==
  [][ /\ (pc = "classify" /\ pc' # "validate")
          => /\ cur \in processing_errors'
             /\ idx' = idx + 1
             /\ pc' \in {"extract", "audit_start"}
             /\ clsCalls' = clsCalls + 1
             /\ valCalls' = valCalls
             /\ tree' = tree
             /\ rejected' = rejected
             /\ placed' = placed
             /\ src' = src
      /\ idx' >= idx
      /\ (pc' \in {"classify", "validate"} /\ pc \notin {"probe", "extract"})
             => idx' = idx ]_vars

C3_Witness ==
  /\ JustDone
  /\ lastFile \in processing_errors
  /\ clsCalls = 3
  /\ valCalls = 10
  /\ lastFile \notin rejected
  /\ pc = "extract"

\* C4: a processed file's source is deleted exactly when its result is Placed
\* or RejectedAfterRetries; a file recorded as ProcessingError still has its
\* source; a file not yet processed (or never extractable) has its source.
C4_DeletedIffPlacedOrRejected ==
  \A f \in Files :
    /\ Processed(f) =>
         /\ (f \notin src) <=> (Result(f) \in {"Placed", "RejectedAfterRetries"})
         /\ Result(f) = "ProcessingError" => f \in src
    /\ ~Processed(f) => f \in src

C4_Witness ==
  \E f, g \in Files :
    /\ Processed(f) /\ Result(f) = "ProcessingError" /\ f \in src
    /\ Processed(g) /\ Result(g) = "Placed" /\ g \notin src

\* C5: every processed file has exactly one outcome among: a copy made into
\* an author directory (Placed), a copy made into invalid_classification
\* (RejectedAfterRetries), an entry in processing_errors (ProcessingError).
C5_ExactlyOneOutcome ==
  \A f \in Files :
    Processed(f) =>
      Cardinality({o \in {"Placed", "RejectedAfterRetries", "ProcessingError"} :
                     \/ o = "Placed" /\ WasPlaced(f)
                     \/ o = "RejectedAfterRetries" /\ f \in rejected
                     \/ o = "ProcessingError" /\ f \in processing_errors}) = 1

\* C6: every copy into an author directory was made right after the Validator
\* Adapter accepted the very (author, title, language) that names the
\* directory and the file; and, during the placement pass, every file in an
\* author directory is such a copy.
C6_PlacedOnlyIfAccepted ==
  /\ \A p \in placed :
       /\ p.verdict.valid
       /\ p.dir = p.verdict.author
       /\ p.name = standardize_filename(p.verdict.author, p.verdict.title,
                                        p.verdict.language, corpus[p.file].ext)
  /\ \A e \in tree :
       e.dir \notin {InvalidClassification, InvalidAuthorFolders}
         => \E p \in placed : p.dir = e.dir /\ p.name = e.name /\ p.file = e.content

C6_Witness ==
  \E p \in placed : p.dir = aA_B /\ p.verdict.valid /\ pc = "remove"


\* C7: the audit never passes the name of an error bucket to the Validator
\* and never relocates an error bucket.
C7_AuditSkipsErrorBuckets ==
  /\ audited \cap {InvalidClassification, InvalidAuthorFolders} = {}
  /\ \A r \in relocated : r.dir \notin {InvalidClassification, InvalidAuthorFolders}
  /\ pc \in {"audit", "finished", "crashed"} => InvalidClassification \in dirs

C9_AuditNeverRaises == pc # "crashed"

\* C10: a Classification returned by the Classifier Adapter has neither its
\* author nor its title equal, case-insensitively, to a placeholder.
C10_NoPlaceholderReturned ==
  pc \in {"validate", "place", "reject_copy", "remove"}
    => /\ Lower(cls.author) \notin forbidden
       /\ Lower(cls.title) \notin forbidden

----------------------------------------------------------------------------
(* The functions of llm_utils and the target path, called on their own *)

\* bounds of the inputs the functions are called with
MaxLines == 3
MaxLen == 3

Pad(s) == <<" ">> \o s \o <<" ">>

\* lines a reply of the Classifier backend is made of: noise, a blank line,
\* the echoed header, data lines, placeholder authors, the unknown sentinels
ReplyLines ==
  { << <<"h","i">> >>,
    << <<" ">> >>,
    <<Upper(sAuthor), Upper(sTitle), Upper(sLanguage)>>,
    <<<<" ">> \o sAuthor, sTitle, sLanguage \o <<" ">>>>,
    <<aAB, tT, lEn>>,
    <<aA_B, tBook>>,
    <<<<"A">> \o Tail(sAuthor), tT, lEn>>,
    <<Pad(Upper(sBook)), tBook, <<>>>>,
    <<Upper(sNA), tT, lEn>>,
    <<sAnonymous, tT, sUnknown>>,
    <<sTitle, sUnknownTitle, lEn>>,
    <<sUnknownAuthor, sUnknownTitle, lEn>>,
    <<Pad(Upper(sUnknownAuthor)), Pad(Upper(sUnknownTitle))>>,
    <<sUnknownAuthor, tT, lEn>>,
    <<aAB, Pad(sUnknownTitle), <<>>>> }

\* result.stdout of the Classifier backend: up to MaxLines lines
ClassifierOutputs == UNION {[1..k -> ReplyLines] : k \in 1..MaxLines}

\* result.stdout of the Validator backend at one attempt
UnparseableOutputs ==
  { OutputGarbage,
    <<>>,
    << <<<<"M","A","Y","B","E">>, sOk>> >> }

ParseableOutputs ==
  { OutputValid,
    OutputInvalid,
    << <<Pad(Lower(sVALID)), sOk>> >>,
    << <<<<"h","m","m">>>>, <<sINVALID, sBad, sOk>> >> }

\* the outputs of the max_retries attempts of one call: k times `garbage`,
\* then `output`
OutputsFrom(k, garbage, output) ==
  [i \in 1..max_retries |-> IF i <= k THEN garbage ELSE output]

AdapterOutputs ==
  { OutputsFrom(k, g, o) : k \in 0..max_retries, g \in UnparseableOutputs,
                           o \in UnparseableOutputs \cup ParseableOutputs }

\* author names the Validator Adapter is called with
AdapterAuthors == {aAB, sUnknownAuthor, Pad(Upper(sBook))}

\* the characters of the strings standardize_filename is called with
FilenameChars == InvalidFilenameChars \cup {"a", " ", "\t"}

FilenameStrings == UNION {[1..k -> FilenameChars] : k \in 0..MaxLen}

\* (author, title, language, ext) with one field drawn from FilenameStrings
FilenameInputs ==
  { [fn |-> "standardize_filename",
     author   |-> IF p = 1 THEN x ELSE aAB,
     title    |-> IF p = 2 THEN x ELSE tT,
     language |-> IF p = 3 THEN x ELSE lEn,
     ext      |-> IF p = 4 THEN x ELSE eTxt] : p \in 1..4, x \in FilenameStrings }

sCharlesDarwin ==
  <<"C","h","a","r","l","e","s"," ","D","a","r","w","i","n">>
sOrigin ==
  <<"O","n"," ","t","h","e"," ","O","r","i","g","i","n"," ","o","f"," ",
    "S","p","e","c","i","e","s">>
sEnglish == <<"E","n","g","l","i","s","h">>

\* the components of a path string, split at "/"
RECURSIVE SplitPath(_)
SplitPath(s) ==
  IF \A i \in 1..Len(s) : s[i] # "/" THEN <<s>>
  ELSE LET i == CHOOSE j \in 1..Len(s) :
                  s[j] = "/" /\ \A k \in 1..(j - 1) : s[k] # "/"
       IN <<SubSeq(s, 1, i - 1)>> \o SplitPath(SubSeq(s, i + 1, Len(s)))

\* author_dir = finally_processed_dir / author.  pathlib drops the empty and
\* the "." components of `author` and keeps "..", and an `author` that starts
\* with "/" replaces finally_processed_dir.  `under` is where the path
\* starts, `parts` the components below it.
author_dir(author) ==
  LET Kept(c) == c # <<>> /\ c # <<".">>
  IN [under |-> IF author # <<>> /\ author[1] = "/" THEN "/" ELSE "root",
      parts |-> SelectSeq(SplitPath(author), Kept)]

\* target_path = author_dir / new_filename
target_path(author, title, language, ext) ==
  LET d == author_dir(author)
  IN [under |-> d.under,
      parts |-> Append(d.parts, standardize_filename(author, title, language, ext))]

\* accepted classifications a file is placed by
PathInputs ==
  { [fn |-> "target_path", author |-> a, title |-> m[1], language |-> m[2],
     ext |-> eTxt] :
      a \in {aAB, aA_B, sCharlesDarwin, sUnknownAuthor, <<"A","/","B">>, <<>>,
             <<".",".">>, <<"/","A">>, <<".">>},
      m \in {<<tT, lEn>>, <<sOrigin, sEnglish>>} }

\* extract.extract_first_1000_words on an .epub container

\* the most units a container holds
MaxUnits == 3

\* 1000 - len(buffer): the word budget
WordBudget == 1000

\* book.get_items(): a document with its number of words, an item that is
\* no document, or an item whose reading raises KeyError
EpubUnits ==
  { [kind |-> "document", words |-> 400],
    [kind |-> "document", words |-> 700],
    [kind |-> "other", words |-> 0],
    [kind |-> "fault", words |-> 0] }

EpubContainers == UNION {[1..k -> EpubUnits] : k \in 1..MaxUnits}

\* len(buffer), for the words taken from each unit
RECURSIVE BufferLen(_)
BufferLen(taken) == IF taken = <<>> THEN 0 ELSE Head(taken) + BufferLen(Tail(taken))

\* add_words: buffer.extend(words[:needed])
add_words(taken, i, words) ==
  LET needed == WordBudget - BufferLen(taken)
  IN [taken EXCEPT ![i] = IF words <= needed THEN words ELSE needed]

\* lines 36-47, from unit i on: the try encloses the whole for loop, so the
\* KeyError of one unit leaves the loop; taken[j] is the number of words of
\* unit j in the buffer
RECURSIVE EpubLoop(_, _, _)
EpubLoop(units, i, taken) ==
  IF i > Len(units) THEN taken
  ELSE IF units[i].kind = "fault" THEN taken
  ELSE IF units[i].kind # "document" THEN EpubLoop(units, i + 1, taken)
  ELSE LET added == add_words(taken, i, units[i].words)
       IN IF BufferLen(added) >= WordBudget THEN added
          ELSE EpubLoop(units, i + 1, added)

\* extract_first_1000_words(file_path) for ext == '.epub': the buffer it
\* returns (it raises only for exceptions other than KeyError)
extract_first_1000_words(units) ==
  [ok |-> TRUE, taken |-> EpubLoop(units, 1, [j \in 1..Len(units) |-> 0])]

pipeVars ==
  <<corpus, validatorStub, pc, probeVars, extractable_files, idx, existing_authors,
    roundVars, src, dirs, tree, processing_errors, histVars, auditVars>>

\* no run of process_all_files: one function is called on one input
InitFn ==
  /\ corpus = [f \in Files |-> [base |-> <<"a">>, ext |-> eTxt, readable |-> TRUE]]
  /\ validatorStub = "free"
  /\ pc = "off"
  /\ probeIdx = 1
  /\ checked_extensions = {}
  /\ succeeded_extensions = {}
  /\ failed_extensions = {}
  /\ extractable_files = <<>>
  /\ idx = 1
  /\ existing_authors = {}
  /\ attempt = 0
  /\ v_attempt = 0
  /\ cls = NoCls
  /\ valid = FALSE
  /\ src = Files
  /\ dirs = {}
  /\ tree = {}
  /\ processing_errors = {}
  /\ auditTodo = {}
  /\ placed = {}
  /\ rejected = {}
  /\ clsCalls = 0
  /\ valCalls = 0
  /\ lastVerdict = NoVerdict
  /\ audited = {}
  /\ relocated = {}
  /\ probeCalls = <<>>
  /\ fnPc = "input"
  /\ fnOut = <<>>
  /\ \/ fnIn \in {[fn |-> "categorize_with_llm", output |-> o] : o \in ClassifierOutputs}
     \/ fnIn \in {[fn |-> "validate_author_name_with_llm", author_name |-> a,
                   outputs |-> o] : a \in AdapterAuthors, o \in AdapterOutputs}
     \/ fnIn \in FilenameInputs
     \/ fnIn \in PathInputs
     \/ fnIn \in {[fn |-> "extract_first_1000_words", units |-> u] :
                    u \in EpubContainers}

\* llm_utils.categorize_with_llm on the backend's output
CallCategorize ==
  /\ fnPc = "input"
  /\ fnIn.fn = "categorize_with_llm"
  /\ fnOut' = categorize_with_llm(fnIn.output)
  /\ fnPc' = "done"
  /\ UNCHANGED <<fnIn, pipeVars>>

\* llm_utils.validate_author_name_with_llm on the backend's outputs
CallValidate ==
  /\ fnPc = "input"
  /\ fnIn.fn = "validate_author_name_with_llm"
  /\ fnOut' = validate_author_name_with_llm(fnIn.author_name, fnIn.outputs)
  /\ fnPc' = "done"
  /\ UNCHANGED <<fnIn, pipeVars>>

\* llm_utils.standardize_filename
CallStandardize ==
  /\ fnPc = "input"
  /\ fnIn.fn = "standardize_filename"
  /\ fnOut' = standardize_filename(fnIn.author, fnIn.title, fnIn.language, fnIn.ext)
  /\ fnPc' = "done"
  /\ UNCHANGED <<fnIn, pipeVars>>

\* main.py lines 125-128: the path an accepted classification is copied to
CallTargetPath ==
  /\ fnPc = "input"
  /\ fnIn.fn = "target_path"
  /\ fnOut' = target_path(fnIn.author, fnIn.title, fnIn.language, fnIn.ext)
  /\ fnPc' = "done"
  /\ UNCHANGED <<fnIn, pipeVars>>

\* extract.extract_first_1000_words on an .epub file
CallExtract ==
  /\ fnPc = "input"
  /\ fnIn.fn = "extract_first_1000_words"
  /\ fnOut' = extract_first_1000_words(fnIn.units)
  /\ fnPc' = "done"
  /\ UNCHANGED <<fnIn, pipeVars>>

NextFn ==
  \/ CallCategorize
  \/ CallValidate
  \/ CallStandardize
  \/ CallTargetPath
  \/ CallExtract

SpecFn == InitFn /\ [][NextFn]_vars

\* the call of function fn has returned
Returned(fn) == fnPc = "done" /\ fnIn.fn = fn

\* for line in output_clean.splitlines(): if '|||' in line: the lines the
\* parsing loop stops at; it returns or raises at the first of them
Delimited(output) == SelectSeq(HeaderStripped(output), HasDelimiter)

\* a data line AUTHOR|||TITLE|||LANGUAGE with three non-blank fields that is
\* neither the header, nor a placeholder author, nor the two sentinels
WellFormedData(line) ==
  /\ Len(line) = 3
  /\ \A i \in 1..3 : Strip(line[i]) # <<>>
  /\ ~IsHeaderLine(line)
  /\ Lower(Strip(line[1])) \notin forbidden
  /\ ~(Lower(Strip(line[1])) = sUnknownAuthor /\ Lower(Strip(line[2])) = sUnknownTitle)

\* noise lines without the delimiter, then the echoed header, then one
\* well-formed data line
NoiseHeaderData(output) ==
  LET n == Len(output)
  IN /\ n >= 2
     /\ \A i \in 1..(n - 2) : ~HasDelimiter(output[i])
     /\ IsHeaderLine(output[n - 1])
     /\ WellFormedData(output[n])

\* C11: for a reply made of noise lines without the delimiter, then the
\* echoed header, then one well-formed data line, the Classifier Adapter
\* returns the (author, title, language) of the data line.
C11_HeaderStrippedAnywhere ==
  (Returned("categorize_with_llm") /\ NoiseHeaderData(fnIn.output))
    => LET data == fnIn.output[Len(fnIn.output)]
       IN /\ fnOut.ok
          /\ fnOut.author = Strip(data[1])
          /\ fnOut.title = Strip(data[2])
          /\ fnOut.language = Strip(data[3])

\* C12: the Classifier Adapter fails whenever the author of the line it
\* parses is, trimmed and lower-cased, one of author, title, book, n/a,
\* anonymous, whatever the title and the language.
C12_PlaceholderAuthorFails ==
  Returned("categorize_with_llm")
    => LET d == Delimited(fnIn.output)
       IN (d # <<>> /\ Lower(Strip(d[1][1])) \in forbidden) => ~fnOut.ok

C12_Witness ==
  /\ Returned("categorize_with_llm")
  /\ LET d == Delimited(fnIn.output)
     IN /\ d # <<>>
        /\ Lower(Strip(d[1][1])) = sBook
        /\ d[1][1] # sBook
        /\ ~fnOut.ok

\* C13: the Classifier Adapter fails whenever the line it parses has the
\* author unknown_author and the title unknown_title, for every language
\* (also a missing one); with only one of the two sentinels, and an author
\* that is no placeholder, it returns the line's author and title.
C13_BothUnknownFails ==
  Returned("categorize_with_llm")
    => LET d == Delimited(fnIn.output)
       IN d # <<>>
            => LET a == Lower(Strip(d[1][1]))
                   t == Lower(Strip(d[1][2]))
               IN /\ (a = sUnknownAuthor /\ t = sUnknownTitle) => ~fnOut.ok
                  /\ ((a = sUnknownAuthor) # (t = sUnknownTitle) /\ a \notin forbidden)
                       => /\ fnOut.ok
                          /\ fnOut.author = Strip(d[1][1])
                          /\ fnOut.title = Strip(d[1][2])

C13_Witness ==
  /\ Returned("categorize_with_llm")
  /\ LET d == Delimited(fnIn.output)
     IN /\ d # <<>>
        /\ Len(d[1]) = 2
        /\ Lower(Strip(d[1][1])) = sUnknownAuthor
        /\ Lower(Strip(d[1][2])) = sUnknownTitle
        /\ d[1][1] # sUnknownAuthor
        /\ ~fnOut.ok

\* C14: the Validator Adapter always returns a verdict.  Called with a name
\* that is no placeholder, it returns at the first of its max_retries
\* attempts whose output holds a line VALID|||reason or INVALID|||reason,
\* with that line's status; if no attempt's output holds one, it returns
\* accepted = false, reason "failed to validate after max_retries attempts",
\* after exactly max_retries attempts.  (A placeholder name is rejected
\* before any attempt.)
C14_AdapterExhaustion ==
  Returned("validate_author_name_with_llm")
    => LET Parses(o) ==
             \E j \in 1..Len(o) :
               Len(o[j]) >= 2 /\ Upper(Strip(o[j][1])) \in {sVALID, sINVALID}
           good == {i \in 1..max_retries : Parses(fnIn.outputs[i])}
       IN /\ fnOut.valid \in BOOLEAN
          /\ IF Lower(Strip(fnIn.author_name)) \in forbidden
             THEN ~fnOut.valid /\ fnOut.attempts = 0
             ELSE IF good = {}
             THEN fnOut = [valid |-> FALSE, reason |-> "exhausted",
                           attempts |-> max_retries]
             ELSE /\ fnOut.reason = "llm"
                  /\ fnOut.attempts \in good
                  /\ \A i \in good : fnOut.attempts <= i

C14_Witness ==
  /\ Returned("validate_author_name_with_llm")
  /\ fnIn.author_name = aAB
  /\ \A i \in 1..max_retries : fnIn.outputs[i] \in UnparseableOutputs
  /\ fnIn.outputs[1] # <<>>
  /\ fnOut = [valid |-> FALSE, reason |-> "exhausted", attempts |-> max_retries]

\* C17: the output of standardize_filename holds none of the characters
\* < > : " / \ | ? * and no space.
C17_FilenameIsSafe ==
  Returned("standardize_filename")
    => \A i \in 1..Len(fnOut) :
         fnOut[i] \notin {"<", ">", ":", "\"", "/", "\\", "|", "?", "*", " "}

C17_Witness ==
  /\ Returned("standardize_filename")
  /\ Len(fnIn.author) = 3
  /\ fnIn.author[1] = "/"
  /\ fnIn.author[2] = " "
  /\ fnIn.author[3] = "?"
  /\ fnOut = <<"_", "_", "_", "-">> \o tT \o <<"-">> \o lEn \o eTxt

\* C18: the target path of every accepted classification is
\* <root>/<author>/<author'>-<title'>-<language'><ext>, the directory being
\* an immediate child of the root named exactly by the unsanitized author
\* string and the file an immediate child of that directory.
C18_TargetPathExact ==
  Returned("target_path")
    => fnOut = [under |-> "root",
                parts |-> <<fnIn.author,
                            clean(fnIn.author) \o <<"-">> \o clean(fnIn.title)
                              \o <<"-">> \o clean(fnIn.language) \o fnIn.ext>>]

\* C15: the probing walk extracts at most once per lower-cased extension: a
\* file whose extension was checked before triggers no extraction, and every
\* extension of a visited file is in exactly one of succeeded_extensions and
\* failed_extensions.
C15_ProbedOncePerExtension ==
  /\ \A i, j \in 1..Len(probeCalls) : i # j => probeCalls[i] # probeCalls[j]
  /\ \A i \in 1..Len(probeCalls) : probeCalls[i] = Lower(probeCalls[i])
  /\ succeeded_extensions \cap failed_extensions = {}
  /\ succeeded_extensions \cup failed_extensions
       = {probeCalls[i] : i \in 1..Len(probeCalls)}
  /\ \A f \in 1..(probeIdx - 1) :
       Lower(corpus[f].ext) \in succeeded_extensions \cup failed_extensions

C15_Witness ==
  /\ probeIdx > NumFiles
  /\ \E f, g \in Files : f < g /\ corpus[f].ext = eTxt /\ corpus[g].ext = eTXT
  /\ Len(probeCalls) < NumFiles
  /\ eTxt \in succeeded_extensions

\* C16: a file with extension .xyz (extraction raises for it) is never in
\* extractable_files, is never the file a Classifier or Validator call is
\* made for, is never copied, and stays in the working tree.
C16_XyzNeverProcessed ==
  \A f \in Files :
    corpus[f].ext = eXyz
      => /\ \A p \in 1..Len(extractable_files) : extractable_files[p] # f
         /\ f \in src
         /\ pc \in {"classify", "validate", "place", "reject_copy", "remove"} => cur # f
         /\ ~WasPlaced(f)
         /\ f \notin rejected
         /\ f \notin processing_errors

C16_Witness ==
  /\ pc = "finished"
  /\ \E f \in Files : corpus[f].ext = eXyz /\ f \in src
  /\ \E f \in Files : WasPlaced(f) /\ f \notin src

\* C19: every run ends (the audit loop is done, or an exception has left
\* process_all_files), whatever the Classifier and the Validator answer: a
\* file causes at most 5 Classifier calls and at most 25 Validator Adapter
\* calls, an adapter call makes at most max_retries backend invocations, and
\* each step of the audit loop visits a directory it has not visited before.
C19_RunTerminates ==
  /\ [](clsCalls <= 5 /\ valCalls <= 25)
  /\ [](pc = "validate"
          => \A o \in ValidatorOutputs(validatorStub) :
               validate_author_name_with_llm(cls.author, o).attempts \in 0..10)
  /\ [](pc = "audit" => audited \cap auditTodo = {})
  /\ [][ pc = "audit"
           => \E d \in auditTodo : d \notin audited /\ audited' = audited \cup {d} ]_vars
  /\ <>(pc \in {"finished", "crashed"})

C19_Witness ==
  /\ pc = "finished"
  /\ validatorStub = "free"
  /\ rejected # {}
  /\ placed # {}
  /\ Cardinality(audited) >= 2

\* C20: in one outer round the Validator Adapter is called at most 5 times,
\* each time with the (author, title, language) of the round's one
\* Classifier call; an accepted verdict ends the calls of the round (the
\* file is placed), and a further Classifier call for the file follows only
\* the fifth rejection of a round.
C20_InnerRetriesReuseClassification ==
  /\ [](pc = "validate"
          => /\ v_attempt \in 0..4
             /\ clsCalls = attempt + 1
             /\ valCalls = 5 * attempt + v_attempt)
  /\ [][ pc = "validate"
           => /\ cls' = cls
              /\ lastVerdict'.author = cls.author
              /\ lastVerdict'.title = cls.title
              /\ lastVerdict'.language = cls.language
              /\ clsCalls' = clsCalls
              /\ valid' => pc' = "place"
              /\ pc' = "validate" => (~valid' /\ v_attempt' = v_attempt + 1)
              /\ pc' = "classify"
                   => (~valid' /\ v_attempt = 4 /\ valCalls' = 5 * attempt') ]_vars
  /\ [][ (pc' = "classify" /\ pc # "classify")
           => \/ pc = "extract"
              \/ pc = "validate" /\ v_attempt = 4 /\ ~valid' ]_vars

C20_Witness ==
  /\ pc = "classify"
  /\ attempt = 1
  /\ clsCalls = 1
  /\ valCalls = 5
  /\ ~lastVerdict.valid
  /\ lastVerdict.author = aAB

\* C21: a file is copied into invalid_classification only in its 5th outer
\* round, after the 25th rejected verdict, and under its basename; while a
\* file is in rounds 1 to 4 a rejection copies nothing; and a source file is
\* deleted only after its copy into the author directory or into the error
\* bucket was made.
C21_RejectCopyOnlyInLastRound ==
  /\ [][ rejected' # rejected
           => /\ pc = "reject_copy"
              /\ attempt = 4
              /\ v_attempt = 4
              /\ clsCalls = 5
              /\ valCalls = 25
              /\ ~valid
              /\ ~lastVerdict.valid
              /\ rejected' = rejected \cup {cur}
              /\ InBucket(cur)' ]_vars
  /\ [][ (pc \in {"classify", "validate", "reject_copy"} /\ attempt < 4)
           => (tree' = tree /\ rejected' = rejected) ]_vars
  /\ [][ src' # src
           => /\ pc = "remove"
              /\ src' = src \ {cur}
              /\ WasPlaced(cur) \/ cur \in rejected
              /\ \E e \in tree : e.content = cur ]_vars

C21_Witness ==
  /\ pc = "remove"
  /\ attempt = 4
  /\ cur \in rejected
  /\ cur \in src
  /\ InBucket(cur)
  /\ valCalls = 25

\* C22: the known-authors list the Classifier is called with holds exactly
\* the names of the author directories made by earlier placements, and
\* never the name of an error bucket.
C22_KnownAuthorsAreAuthorDirs ==
  pc = "classify"
    => /\ InvalidClassification \notin existing_authors
       /\ InvalidAuthorFolders \notin existing_authors
       /\ existing_authors = {p.dir : p \in placed}

\* C23 as stated: the Classifier Adapter fails for every reply in which no
\* line has three fields; a reply whose only delimited line is
\* AUTHOR|||TITLE yields no classification.
C23_TwoFieldsFail ==
  (Returned("categorize_with_llm")
     /\ \A i \in 1..Len(fnIn.output) : Len(fnIn.output[i]) < 3)
    => ~fnOut.ok

\* C23, amended: the Classifier Adapter fails for every reply in which no
\* line holds the delimiter.  When the first delimited line it looks at has
\* two fields, and its author is no placeholder and not the unknown pair,
\* it returns that line's author and title with the language "unknown".
C23_TwoFieldsGetUnknownLanguage ==
  Returned("categorize_with_llm")
    => LET lines == HeaderStripped(fnIn.output)
           first == {i \in 1..Len(lines) :
                       Len(lines[i]) >= 2 /\ \A j \in 1..(i - 1) : Len(lines[j]) < 2}
       IN /\ (\A i \in 1..Len(fnIn.output) : Len(fnIn.output[i]) < 2)
               => (~fnOut.ok /\ fnOut.error = "no_valid_line")
          /\ \A i \in first :
               ( /\ Len(lines[i]) = 2
                 /\ Lower(Strip(lines[i][1])) \notin forbidden
                 /\ ~( /\ Lower(Strip(lines[i][1])) = sUnknownAuthor
                       /\ Lower(Strip(lines[i][2])) = sUnknownTitle) )
                 => fnOut = [ok |-> TRUE, author |-> Strip(lines[i][1]),
                             title |-> Strip(lines[i][2]), language |-> sUnknown]

C23_Witness ==
  /\ Returned("categorize_with_llm")
  /\ fnIn.output = << << <<"h","i">> >>, <<aA_B, tBook>> >>
  /\ fnOut = [ok |-> TRUE, author |-> aA_B, title |-> tBook, language |-> sUnknown]

\* C24: when a unit of the container raises a resource fault, the
\* Extraction Adapter does not fail, keeps the words accumulated before it
\* and goes on with the following units: every document unit contributes its
\* words as far as the 1000-word budget, counted over the documents before
\* it, allows.
C24_FaultsAreSkipped ==
  Returned("extract_first_1000_words")
    => LET units == fnIn.units
           before(i) ==
             BufferLen([j \in 1..(i - 1) |->
                          IF units[j].kind = "document" THEN units[j].words ELSE 0])
           left(i) == IF before(i) >= 1000 THEN 0 ELSE 1000 - before(i)
       IN /\ fnOut.ok
          /\ \A i \in 1..Len(units) :
               units[i].kind = "document"
                 => fnOut.taken[i] =
                      IF units[i].words <= left(i) THEN units[i].words ELSE left(i)

\* C25: at the end of the placement pass every source file that was deleted
\* has a copy of its content in the output tree, in an author directory or
\* in invalid_classification.
C25_NoContentLost ==
  pc = "audit_start"
    => \A f \in Files \ src : \E e \in tree : e.content = f /\ e.dir \in dirs

====
